---------------------------- MODULE Spec2Model ----------------------------
(***************************************************************************)
(* A model of the bencode codec: the value type (src/src/bencode.rs), the  *)
(* one-byte-lookahead recursive-descent Decoder (src/src/decoder.rs) and   *)
(* the Encoder (src/src/encoder.rs).                                       *)
(*                                                                         *)
(* Bytes are the integers 0..255.  An i64 is kept at its full width: TLC's *)
(* own integers are 32 bits wide, so a number is a sign and a magnitude of *)
(* three limbs in base 10^7 (hi, mid, lo), and checked_mul / checked_add   *)
(* compare the exact result with i64::MAX.                                 *)
(*                                                                         *)
(* The byte source is an in-memory Cursor (as in the repository's tests):  *)
(* a buffer and a read position; it never reports an I/O fault.  The sink  *)
(* is a Vec<u8> behind a Write that may fail chosen write operations.      *)
(***************************************************************************)
EXTENDS Integers, Sequences, FiniteSets, TLC

VARIABLES
    reader,     \* Decoder.reader: [buf, pos], the Cursor over the source bytes
    current,    \* Decoder.current: the most recently read byte
    calls,      \* history of the decode() calls: [start, end, out] per call
    writer,     \* Encoder.writer: [out, n], bytes accepted and write operations so far
    faults,     \* the write operations (by number) that the sink fails
    encodes,    \* history of the encode() calls: [value, log, res] per call
    map,        \* a BTreeMap<String, Bencode> the caller is building
    inserts     \* history of the caller's BTreeMap::insert calls: <<key, value>>

vars == <<reader, current, calls, writer, faults, encodes, map, inserts>>

---------------------------------------------------------------------------
(* Bytes the code names.                                                   *)
B_i == 105
B_l == 108
B_d == 100
B_e == 101
B_colon == 58
B_minus == 45
B_0 == 48
B_9 == 57

\* char::to_digit(10) is Some for '0'..='9' only.
IsDigit(b) == B_0 <= b /\ b <= B_9

Some(x) == [some |-> TRUE, val |-> x]
None == [some |-> FALSE]

---------------------------------------------------------------------------
(* Numbers.  Num(neg, hi, mid, lo) is (-1)^neg * (hi*10^14 + mid*10^7 + lo) *)
(* with 0 <= mid, lo < 10^7; zero is never negative.                       *)
LimbBase == 10 * 1000 * 1000

Num(neg, hi, mid, lo) == [neg |-> neg, hi |-> hi, mid |-> mid, lo |-> lo]
Small(k) == IF k < 0 THEN Num(TRUE, 0, 0, 0 - k) ELSE Num(FALSE, 0, 0, k)
Zero == Num(FALSE, 0, 0, 0)

\* |a| <= |b|
MagLeq(a, b) ==
    \/ a.hi < b.hi
    \/ a.hi = b.hi /\ a.mid < b.mid
    \/ a.hi = b.hi /\ a.mid = b.mid /\ a.lo <= b.lo

IsZero(a) == a.hi = 0 /\ a.mid = 0 /\ a.lo = 0

\* i64::MAX = 9223372036854775807 and i64::MIN = -9223372036854775808
I64_MAX == Num(FALSE, 92233, 7203685, 4775807)
I64_MIN == Num(TRUE, 92233, 7203685, 4775808)

\* n is a value of the type i64
InI64(n) == IF n.neg THEN MagLeq(n, I64_MIN) ELSE MagLeq(n, I64_MAX)

\* i64::checked_mul(10) on a number >= 0: None when the product exceeds i64::MAX
checked_mul_10(n) ==
    LET lo10 == n.lo * 10
        mid10 == n.mid * 10 + (lo10 \div LimbBase)
        hi10 == n.hi * 10 + (mid10 \div LimbBase)
        raw == Num(FALSE, hi10, mid10 % LimbBase, lo10 % LimbBase)
    IN IF MagLeq(raw, I64_MAX) THEN Some(raw) ELSE None

\* i64::checked_add(digit) on a number >= 0 and a digit 0..9
checked_add(n, digit) ==
    LET lo1 == n.lo + digit
        mid1 == n.mid + (lo1 \div LimbBase)
        hi1 == n.hi + (mid1 \div LimbBase)
        raw == Num(FALSE, hi1, mid1 % LimbBase, lo1 % LimbBase)
    IN IF MagLeq(raw, I64_MAX) THEN Some(raw) ELSE None

\* sign * number for sign in {1, -1} and number in 0..i64::MAX (never overflows)
MulSign(sign, n) == Num(sign = -1 /\ ~IsZero(n), n.hi, n.mid, n.lo)

RECURSIVE DecDigits(_)
\* the decimal digits of a natural number k, most significant first, as bytes
DecDigits(k) ==
    IF k < 10 THEN <<B_0 + k>> ELSE Append(DecDigits(k \div 10), B_0 + (k % 10))

RECURSIVE PadDigits(_, _)
\* the last w decimal digits of k, zero padded, as bytes
PadDigits(k, w) ==
    IF w = 0 THEN <<>> ELSE Append(PadDigits(k \div 10, w - 1), B_0 + (k % 10))

\* core::fmt::Display for an integer: '-' when negative, no leading zeros
FmtInt(n) ==
    LET digits ==
            IF n.hi > 0 THEN DecDigits(n.hi) \o PadDigits(n.mid, 7) \o PadDigits(n.lo, 7)
            ELSE IF n.mid > 0 THEN DecDigits(n.mid) \o PadDigits(n.lo, 7)
            ELSE DecDigits(n.lo)
    IN IF n.neg THEN <<B_minus>> \o digits ELSE digits

---------------------------------------------------------------------------
(* enum Bencode                                                            *)
Integer(n) == [tag |-> "Integer", int |-> n]
String(bytes) == [tag |-> "String", bytes |-> bytes]
List(items) == [tag |-> "List", items |-> items]
Dictionary(m) == [tag |-> "Dictionary", map |-> m]

\* Ord for String (and for [u8]): byte-lexicographic, a proper prefix first
RECURSIVE LexLess(_, _)
LexLess(a, b) ==
    IF b = <<>> THEN FALSE
    ELSE IF a = <<>> THEN TRUE
    ELSE IF Head(a) # Head(b) THEN Head(a) < Head(b)
    ELSE LexLess(Tail(a), Tail(b))

(* BTreeMap<String, Bencode>: the entries <<key, value>> in ascending key    *)
(* order, one per key.                                                     *)
BTreeNew == <<>>

RECURSIVE BTreeInsertAt(_, _, _, _)
BTreeInsertAt(m, key, value, i) ==
    IF i > Len(m) THEN Append(m, <<key, value>>)
    ELSE IF m[i][1] = key THEN [m EXCEPT ![i] = <<key, value>>]
    ELSE IF LexLess(key, m[i][1])
        THEN SubSeq(m, 1, i - 1) \o <<(<<key, value>>)>> \o SubSeq(m, i, Len(m))
    ELSE BTreeInsertAt(m, key, value, i + 1)

\* a map that keeps its entries in the order of their first insertion
InsertionOrderInsert(m, key, value) ==
    IF \E i \in 1..Len(m) : m[i][1] = key
    THEN [i \in 1..Len(m) |-> IF m[i][1] = key THEN <<key, value>> ELSE m[i]]
    ELSE Append(m, <<key, value>>)

\* BTreeMap::insert: the key's value is replaced when the key is present
BTreeInsert(m, key, value) == BTreeInsertAt(m, key, value, 1)

RECURSIVE BTreeFrom(_)
\* BTreeMap::from([..]): the pairs inserted in turn
BTreeFrom(pairs) ==
    IF pairs = <<>> THEN BTreeNew
    ELSE LET n == Len(pairs)
         IN BTreeInsert(BTreeFrom(SubSeq(pairs, 1, n - 1)), pairs[n][1], pairs[n][2])

---------------------------------------------------------------------------
(* String::from_utf8: whether the bytes are well-formed UTF-8.             *)
Cont(b) == 128 <= b /\ b <= 191

RECURSIVE IsUtf8(_)
IsUtf8(s) ==
    IF s = <<>> THEN TRUE
    ELSE LET b == s[1]
             n == Len(s)
         IN IF b < 128 THEN IsUtf8(Tail(s))
            ELSE IF 194 <= b /\ b <= 223
                THEN n >= 2 /\ Cont(s[2]) /\ IsUtf8(SubSeq(s, 3, n))
            ELSE IF 224 <= b /\ b <= 239
                THEN /\ n >= 3
                     /\ Cont(s[2]) /\ Cont(s[3])
                     /\ (b = 224 => s[2] >= 160)
                     /\ (b = 237 => s[2] <= 159)
                     /\ IsUtf8(SubSeq(s, 4, n))
            ELSE IF 240 <= b /\ b <= 244
                THEN /\ n >= 4
                     /\ Cont(s[2]) /\ Cont(s[3]) /\ Cont(s[4])
                     /\ (b = 240 => s[2] >= 144)
                     /\ (b = 244 => s[2] <= 143)
                     /\ IsUtf8(SubSeq(s, 5, n))
            ELSE FALSE

---------------------------------------------------------------------------
(* Decoder.  A decoder state st is [pos, cur]: the Cursor's position in    *)
(* buf and Decoder.current.  Every routine returns [st, out]: the state it *)
(* leaves and its outcome, Ok(..), Err(DecoderError) or a panic.           *)
Ok(v) == [kind |-> "ok", val |-> v]
Err(e) == [kind |-> "err", err |-> e]
ErrKeyIsNotString(v) == [kind |-> "err", err |-> "DictionaryKeyIsNotString", val |-> v]
Panic == [kind |-> "panic", err |-> "not yet implemented"]

Ret(st, out) == [st |-> st, out |-> out]

\* Decoder::new
DecoderNew == 0

\* advance: read one byte into current; Err(EOF) when the source is exhausted
advance(buf, st) ==
    IF st.pos >= Len(buf) THEN Ret(st, Err("EOF"))
    ELSE LET b == buf[st.pos + 1]
         IN Ret([pos |-> st.pos + 1, cur |-> b], Ok(b))

\* expect
expect(st, expected, error) ==
    IF st.cur # expected THEN Err(error) ELSE Ok(TRUE)

\* decode_digit
decode_digit(st) == IF IsDigit(st.cur) THEN Some(st.cur - B_0) ELSE None

\* decode_integer_sign
decode_integer_sign(buf, st) ==
    IF st.cur = B_minus
    THEN LET a == advance(buf, st)
         IN IF a.out.kind # "ok" THEN a ELSE Ret(a.st, Ok(-1))
    ELSE Ret(st, Ok(1))

RECURSIVE decode_number_loop(_, _, _)
decode_number_loop(buf, st, number) ==
    LET digit == decode_digit(st)
    IN IF ~digit.some THEN Ret(st, Ok(number))
       ELSE LET m == checked_mul_10(number)
                s == IF m.some THEN checked_add(m.val, digit.val) ELSE None
            IN IF ~s.some THEN Ret(st, Err("IntegerOverflow"))
               ELSE LET a == advance(buf, st)
                    IN IF a.out.kind # "ok" THEN a
                       ELSE decode_number_loop(buf, a.st, s.val)

\* decode_number: the digits from current on, accumulated with overflow checks
decode_number(buf, st) == decode_number_loop(buf, st, Zero)

\* decode_integer
decode_integer(buf, st) ==
    LET a == advance(buf, st)
    IN IF a.out.kind # "ok" THEN a
       ELSE IF a.out.val = B_e THEN Ret(a.st, Err("EmptyNumber"))
       ELSE LET sign == decode_integer_sign(buf, a.st)
            IN IF sign.out.kind # "ok" THEN sign
               ELSE LET number == decode_number(buf, sign.st)
                    IN IF number.out.kind # "ok" THEN number
                       ELSE LET e == expect(number.st, B_e, "NAN")
                            IN IF e.kind # "ok" THEN Ret(number.st, e)
                               ELSE Ret(number.st,
                                        Ok(Integer(MulSign(sign.out.val, number.out.val))))

\* read_bytes: read_exact of `amount` bytes; a short source is UnexpectedEof,
\* which From<io::Error> turns into EOF, and leaves the Cursor at its end
\* (the allocation of the buffer, vec![0; amount], is taken to succeed)
read_bytes(buf, st, amount) ==
    IF amount.hi = 0 /\ amount.mid = 0 /\ amount.lo <= Len(buf) - st.pos
    THEN Ret([st EXCEPT !.pos = st.pos + amount.lo],
             Ok(SubSeq(buf, st.pos + 1, st.pos + amount.lo)))
    ELSE Ret([st EXCEPT !.pos = Len(buf)], Err("EOF"))

\* decode_string
decode_string(buf, st) ==
    LET length == decode_number(buf, st)
    IN IF length.out.kind # "ok" THEN length
       ELSE LET c == expect(length.st, B_colon, "NAN")
            IN IF c.kind # "ok" THEN Ret(length.st, c)
               ELSE LET bytes == read_bytes(buf, length.st, length.out.val)
                    IN IF bytes.out.kind # "ok" THEN bytes
                       ELSE Ret(bytes.st, Ok(String(bytes.out.val)))

RECURSIVE decode_current(_, _)
RECURSIVE decode_list_loop(_, _, _)
RECURSIVE decode_dictionary_loop(_, _, _)

\* decode: advance to the value's leading byte, then dispatch on it
decode(buf, st) ==
    LET a == advance(buf, st)
    IN IF a.out.kind # "ok" THEN a ELSE decode_current(buf, a.st)

\* decode_list
decode_list(buf, st) == decode_list_loop(buf, st, <<>>)

\* decode_dictionary
decode_dictionary(buf, st) == decode_dictionary_loop(buf, st, BTreeNew)

\* decode_current: the last arm is todo!(), which panics
decode_current(buf, st) ==
    IF st.cur = B_i THEN decode_integer(buf, st)
    ELSE IF IsDigit(st.cur) THEN decode_string(buf, st)
    ELSE IF st.cur = B_l THEN decode_list(buf, st)
    ELSE IF st.cur = B_d THEN decode_dictionary(buf, st)
    ELSE Ret(st, Panic)

\* the loop of decode_list: while self.advance()? != b'e' { push(decode_current()?) }
decode_list_loop(buf, st, items) ==
    LET a == advance(buf, st)
    IN IF a.out.kind # "ok" THEN a
       ELSE IF a.out.val = B_e THEN Ret(a.st, Ok(List(items)))
       ELSE LET item == decode_current(buf, a.st)
            IN IF item.out.kind # "ok" THEN item
               ELSE decode_list_loop(buf, item.st, Append(items, item.out.val))

\* the loop of decode_dictionary: a key through decode_current, its value through decode
decode_dictionary_loop(buf, st, m) ==
    LET a == advance(buf, st)
    IN IF a.out.kind # "ok" THEN a
       ELSE IF a.out.val = B_e THEN Ret(a.st, Ok(Dictionary(m)))
       ELSE LET k == decode_current(buf, a.st)
            IN IF k.out.kind # "ok" THEN k
               ELSE IF k.out.val.tag # "String"
                   THEN Ret(k.st, ErrKeyIsNotString(k.out.val))
               ELSE IF ~IsUtf8(k.out.val.bytes) THEN Ret(k.st, Err("InvalidUtf8"))
               ELSE LET value == decode(buf, k.st)
                    IN IF value.out.kind # "ok" THEN value
                       ELSE decode_dictionary_loop(
                                buf, value.st,
                                BTreeInsert(m, k.out.val.bytes, value.out.val))

---------------------------------------------------------------------------
(* Encoder.  A sink state s is [out, n, log]: the bytes the writer holds,  *)
(* the number of write operations made on it so far, and the operations of *)
(* the running encode call, each [at, bytes, ok].  One write!(..) or one   *)
(* write_all(..) of the source is one write operation; the sink fails the  *)
(* operations whose number is in `bad`, and a failed operation leaves the  *)
(* writer's bytes as they were.  An io::Error is named by the number of    *)
(* the operation that produced it.                                         *)
WOk == [kind |-> "ok"]
WErr(at) == [kind |-> "err", at |-> at]

\* Write::write_all / Write::write_fmt on the sink
write_all(s, bad, bytes) ==
    LET at == s.n + 1
        ok == at \notin bad
    IN [s |-> [out |-> IF ok THEN s.out \o bytes ELSE s.out,
               n |-> at,
               log |-> Append(s.log, [at |-> at, bytes |-> bytes, ok |-> ok])],
        res |-> IF ok THEN WOk ELSE WErr(at)]

\* Result::and(self, res): res was evaluated by the caller before the call
and(self, res) == IF self.kind = "ok" THEN res ELSE self

\* encode_number: write!(writer, "i{}e", number)
encode_number(s, bad, number) ==
    write_all(s, bad, <<B_i>> \o FmtInt(number) \o <<B_e>>)

\* the two writes of encode_string, the second made whatever the first returned
and_string(s, bad, first, bytes) ==
    LET payload == write_all(first.s, bad, bytes)
    IN [s |-> payload.s, res |-> and(first.res, payload.res)]

\* encode_string: write!(writer, "{}:", bytes.len()).and(writer.write_all(bytes))
encode_string(s, bad, bytes) ==
    and_string(s, bad, write_all(s, bad, DecDigits(Len(bytes)) \o <<B_colon>>), bytes)

RECURSIVE encode(_, _, _)
RECURSIVE encode_list_items(_, _, _, _)
RECURSIVE encode_dictionary_entries(_, _, _, _)

\* encode_list: write_all(b"l").and(try_for_each(..)).and(write_all(b"e"))
encode_list(s, bad, list) ==
    LET open == write_all(s, bad, <<B_l>>)
        items == encode_list_items(open.s, bad, list, 1)
        close == write_all(items.s, bad, <<B_e>>)
    IN [s |-> close.s, res |-> and(and(open.res, items.res), close.res)]

\* encode_dictionary: write_all(b"d").and(try_for_each(..)).and(write_all(b"e"))
encode_dictionary(s, bad, dictionary) ==
    LET open == write_all(s, bad, <<B_d>>)
        entries == encode_dictionary_entries(open.s, bad, dictionary, 1)
        close == write_all(entries.s, bad, <<B_e>>)
    IN [s |-> close.s, res |-> and(and(open.res, entries.res), close.res)]

\* encode
encode(s, bad, decoded) ==
    IF decoded.tag = "Integer" THEN encode_number(s, bad, decoded.int)
    ELSE IF decoded.tag = "String" THEN encode_string(s, bad, decoded.bytes)
    ELSE IF decoded.tag = "List" THEN encode_list(s, bad, decoded.items)
    ELSE encode_dictionary(s, bad, decoded.map)

\* list.iter().try_for_each(|decoded| self.encode(decoded)): stops at the first Err
encode_list_items(s, bad, list, i) ==
    IF i > Len(list) THEN [s |-> s, res |-> WOk]
    ELSE LET item == encode(s, bad, list[i])
         IN IF item.res.kind # "ok" THEN item
            ELSE encode_list_items(item.s, bad, list, i + 1)

\* dictionary.into_iter().try_for_each(|(key, value)|
\*     self.encode_string(key.as_bytes()).and(self.encode(value)))
\* in the map's iteration order; stops at the first entry that returned Err
encode_dictionary_entries(s, bad, dictionary, i) ==
    IF i > Len(dictionary) THEN [s |-> s, res |-> WOk]
    ELSE LET key == encode_string(s, bad, dictionary[i][1])
             value == encode(key.s, bad, dictionary[i][2])
             entry == and(key.res, value.res)
         IN IF entry.kind # "ok" THEN [s |-> value.s, res |-> entry]
            ELSE encode_dictionary_entries(value.s, bad, dictionary, i + 1)

\* the bytes encode writes to a sink that never fails
Enc(v) == encode([out |-> <<>>, n |-> 0, log |-> <<>>], {}, v).s.out

---------------------------------------------------------------------------
(* Bounds of the model.                                                    *)
MaxListLen == 2     \* items of a sampled list
MaxDictLen == 2     \* entries of a sampled dictionary
MaxRawLen == 3      \* length of the exhaustively enumerated raw inputs
MaxDecodes == 3     \* decode() calls on one Decoder
MaxEncodes == 2     \* encode() calls on one Encoder
MaxFaultAt == 3     \* the sink may fail any of its first MaxFaultAt write operations
MaxInserts == 3     \* BTreeMap::insert calls of the caller

SeqsUpTo(S, n) == UNION {[1..k -> S] : k \in 0..n}

(* Sampled values.                                                         *)
I64Samples ==
    {Zero, Small(1), Small(-1), Small(10), Small(-123), Num(FALSE, 0, 1, 0),
     Num(TRUE, 3, 0, 40), I64_MAX, Num(TRUE, 92233, 7203685, 4775807), I64_MIN}

\* integers beyond the i64 range: i64::MAX + 1, i64::MIN - 1, 10^19, -(10^20 + 5)
BigSamples ==
    {Num(FALSE, 92233, 7203685, 4775808), Num(TRUE, 92233, 7203685, 4775809),
     Num(FALSE, 100000, 0, 0), Num(TRUE, 1000000, 0, 5)}

IntSamples == I64Samples \cup BigSamples

\* "", "a", "ba", a byte that is no UTF-8, "spam", a string of ten bytes
ByteSamples ==
    {<<>>, <<97>>, <<98, 97>>, <<255>>, <<115, 112, 97, 109>>,
     <<48, 49, 50, 51, 52, 53, 54, 55, 56, 57>>}

\* "cow", "spam"
KeySamples == {<<99, 111, 119>>, <<115, 112, 97, 109>>}

\* the keys the caller inserts: "spam", "cow", "co"
InsertKeys == {<<115, 112, 97, 109>>, <<99, 111, 119>>, <<99, 111>>}

Scalars == {Integer(n) : n \in I64Samples} \cup {String(b) : b \in ByteSamples}

\* the values sampled lists and dictionaries hold
Elems ==
    {Integer(Small(-1)), String(<<97>>), List(<<String(<<98>>)>>),
     Dictionary(BTreeFrom(<<(<<(<<97>>), Integer(Zero)>>)>>))}

\* the values the caller inserts: "moo", [-1]
InsertValues == {String(<<109, 111, 111>>), List(<<Integer(Small(-1))>>)}

Lists == {List(items) : items \in SeqsUpTo(Elems, MaxListLen)}

Dicts ==
    {Dictionary(BTreeFrom(pairs)) : pairs \in SeqsUpTo(KeySamples \X Elems, MaxDictLen)}

\* i64::MIN inside a list and inside a dictionary
Nested ==
    {List(<<String(<<97>>), Integer(I64_MIN)>>),
     Dictionary(BTreeFrom(<<(<<(<<97>>), Integer(I64_MIN)>>)>>))}

Values == Scalars \cup Lists \cup Dicts \cup Nested

\* whether i64::MIN occurs in a value
RECURSIVE HasMin(_)
HasMin(v) ==
    IF v.tag = "Integer" THEN v.int = I64_MIN
    ELSE IF v.tag = "String" THEN FALSE
    ELSE IF v.tag = "List" THEN \E i \in DOMAIN v.items : HasMin(v.items[i])
    ELSE \E i \in DOMAIN v.map : HasMin(v.map[i][2])

---------------------------------------------------------------------------
(* Sampled inputs of the decoder.                                          *)

\* 'i', '-', '0', '1', 'e', 'l', 'd', ':', 'x'
RawAlphabet == {B_i, B_minus, B_0, 49, B_e, B_l, B_d, B_colon, 120}

RawInputs == SeqsUpTo(RawAlphabet, MaxRawLen)

\* every prefix of an encoding, the encoding itself included
PrefixInputs == UNION {{SubSeq(Enc(v), 1, k) : k \in 0..Len(Enc(v))} : v \in Values}

\* "", "+", "e", "i1e"
Trailers == {<<>>, <<43>>, <<B_e>>, <<B_i, 49, B_e>>}

TrailedInputs == {Enc(v) \o t : v \in Values, t \in Trailers}

\* 'i', the decimal representation of n, 'e'
IntText(n) == <<B_i>> \o FmtInt(n) \o <<B_e>>

IntInputs == {IntText(n) : n \in IntSamples}

\* a dictionary whose last key has no value: d <entries> <key> e <trailer>
MissingValueInputs ==
    {<<B_d>> \o Enc(String(k1)) \o Enc(v1) \o Enc(String(k2)) \o <<B_e>> \o t :
        k1 \in KeySamples, v1 \in Elems \cup InsertValues, k2 \in KeySamples,
        t \in Trailers}
    \cup {<<B_d>> \o Enc(String(k)) \o <<B_e>> \o t : k \in KeySamples, t \in Trailers}

\* an integer with a sign and no digit: i-e <trailer>
SignOnlyInputs == {<<B_i, B_minus, B_e>> \o t : t \in Trailers}

---------------------------------------------------------------------------
(* Texts the decoder may be given, as syntax trees: an integer i<digits>e  *)
(* with an optional '-' (and, as the decoder reads them, any number of     *)
(* digits, none included), a string <length>:<bytes>, a list l<text>*e and *)
(* a dictionary d(<string><text>)*e.  Text(t) is the bytes of the tree t,  *)
(* and Canonical(t) says that its dictionaries' keys are strictly          *)
(* ascending (hence unique), its integers have no leading zero and are not *)
(* -0, and its string lengths have no leading zero.                        *)
IntLit(neg, digits) == [k |-> "int", neg |-> neg, digits |-> digits]
StrLit(zeros, bytes) == [k |-> "str", zeros |-> zeros, bytes |-> bytes]
ListLit(items) == [k |-> "list", items |-> items]
DictLit(entries) == [k |-> "dict", entries |-> entries]

\* no digit, "0", "1", "10", "01", "00", the digits of i64::MAX and of i64::MAX + 1
DigitTexts ==
    {<<>>, <<B_0>>, <<49>>, <<49, B_0>>, <<B_0, 49>>, <<B_0, B_0>>,
     FmtInt(I64_MAX), FmtInt(Num(FALSE, 92233, 7203685, 4775808))}

IntLits == {IntLit(neg, digits) : neg \in BOOLEAN, digits \in DigitTexts}

\* a length written with `zeros` leading zeros
StrLits == {StrLit(zeros, bytes) : zeros \in 0..1, bytes \in ByteSamples}

KeyLits == {StrLit(0, <<97>>), StrLit(0, <<98>>), StrLit(1, <<97>>)}

ElemLits ==
    {IntLit(TRUE, <<49>>), IntLit(TRUE, <<B_0>>), StrLit(0, <<97>>),
     DictLit(<<(<<StrLit(0, <<98>>), IntLit(TRUE, <<49, B_0>>)>>)>>)}

ListLits == {ListLit(items) : items \in SeqsUpTo(ElemLits, MaxListLen)}

DictLits == {DictLit(entries) : entries \in SeqsUpTo(KeyLits \X ElemLits, MaxDictLen)}

Lits == IntLits \cup StrLits \cup ListLits \cup DictLits

RECURSIVE Flatten(_)
Flatten(parts) == IF parts = <<>> THEN <<>> ELSE Head(parts) \o Flatten(Tail(parts))

RECURSIVE Text(_)
Text(t) ==
    IF t.k = "int"
        THEN <<B_i>> \o (IF t.neg THEN <<B_minus>> ELSE <<>>) \o t.digits \o <<B_e>>
    ELSE IF t.k = "str"
        THEN [i \in 1..t.zeros |-> B_0] \o DecDigits(Len(t.bytes)) \o <<B_colon>> \o t.bytes
    ELSE IF t.k = "list"
        THEN <<B_l>> \o Flatten([i \in 1..Len(t.items) |-> Text(t.items[i])]) \o <<B_e>>
    ELSE <<B_d>>
         \o Flatten([i \in 1..Len(t.entries) |->
                        Text(t.entries[i][1]) \o Text(t.entries[i][2])])
         \o <<B_e>>

RECURSIVE Canonical(_)
Canonical(t) ==
    IF t.k = "int"
        THEN /\ ~(Len(t.digits) > 1 /\ t.digits[1] = B_0)
             /\ ~(t.neg /\ t.digits = <<B_0>>)
    ELSE IF t.k = "str" THEN t.zeros = 0
    ELSE IF t.k = "list" THEN \A i \in 1..Len(t.items) : Canonical(t.items[i])
    ELSE /\ \A i \in 1..Len(t.entries) :
                Canonical(t.entries[i][1]) /\ Canonical(t.entries[i][2])
         /\ \A i \in 1..(Len(t.entries) - 1) :
                LexLess(t.entries[i][1].bytes, t.entries[i + 1][1].bytes)

LitInputs == {Text(t) : t \in Lits}
CanonicalInputs == {Text(t) : t \in {u \in Lits : Canonical(u)}}

\* every source the model hands to a Decoder
Inputs ==
    RawInputs \cup PrefixInputs \cup TrailedInputs \cup IntInputs
    \cup MissingValueInputs \cup SignOnlyInputs \cup LitInputs

---------------------------------------------------------------------------
(* The state machine.                                                      *)
NoReader == [open |-> FALSE, buf |-> <<>>, pos |-> 0]
NewWriter == [out |-> <<>>, n |-> 0]

\* the decoder is gone once a decode call has panicked
Panicked == calls # <<>> /\ calls[Len(calls)].out.kind = "panic"

\* Decoder::new(Cursor::new(buf))
OpenReader(buf) ==
    /\ reader' = [open |-> TRUE, buf |-> buf, pos |-> 0]
    /\ current' = DecoderNew

\* one call of Decoder::decode by the caller
CallDecode ==
    /\ reader.open
    /\ ~Panicked
    /\ Len(calls) < MaxDecodes
    /\ LET r == decode(reader.buf, [pos |-> reader.pos, cur |-> current])
       IN /\ reader' = [reader EXCEPT !.pos = r.st.pos]
          /\ current' = r.st.cur
          /\ calls' = Append(calls, [start |-> reader.pos, end |-> r.st.pos, out |-> r.out])
    /\ UNCHANGED <<writer, faults, encodes, map, inserts>>

\* one call of Encoder::encode(&value) by the caller
Encode(value) ==
    /\ Len(encodes) < MaxEncodes
    /\ LET r == encode([out |-> writer.out, n |-> writer.n, log |-> <<>>], faults, value)
       IN /\ writer' = [out |-> r.s.out, n |-> r.s.n]
          /\ encodes' = Append(encodes,
                               [value |-> value,
                                hist |-> inserts,
                                log |-> r.s.log,
                                res |-> r.res,
                                out |-> SubSeq(r.s.out, Len(writer.out) + 1, Len(r.s.out))])
    /\ UNCHANGED <<faults, map, inserts>>

\* the caller encodes a sampled value
CallEncode ==
    /\ ~reader.open
    /\ \E value \in Values : Encode(value)
    /\ UNCHANGED <<reader, current, calls>>

\* the caller encodes the value its last decode call returned
CallReencode ==
    /\ calls # <<>>
    /\ calls[Len(calls)].out.kind = "ok"
    /\ Len(encodes) < Len(calls)
    /\ Encode(calls[Len(calls)].out.val)
    /\ UNCHANGED <<reader, current, calls>>

\* the caller opens a Decoder over the bytes the Encoder wrote, then a trailer
CallNewDecoder ==
    /\ ~reader.open
    /\ encodes # <<>>
    /\ \E t \in Trailers : OpenReader(writer.out \o t)
    /\ UNCHANGED <<calls, writer, faults, encodes, map, inserts>>

\* the caller inserts into the map it is building
CallInsert ==
    /\ Len(inserts) < MaxInserts
    /\ \E key \in InsertKeys, value \in InsertValues :
        /\ map' = BTreeInsert(map, key, value)
        /\ inserts' = Append(inserts, <<key, value>>)
    /\ UNCHANGED <<reader, current, calls, writer, faults, encodes>>

\* the caller encodes Bencode::Dictionary(map)
CallEncodeMap ==
    /\ Encode(Dictionary(map))
    /\ UNCHANGED <<reader, current, calls>>

Idle ==
    /\ reader = NoReader
    /\ current = DecoderNew
    /\ calls = <<>>
    /\ writer = NewWriter
    /\ faults = {}
    /\ encodes = <<>>
    /\ map = BTreeNew
    /\ inserts = <<>>

\* The codec: values are encoded into one sink, a Decoder is opened over the
\* bytes written and decodes them one call after the other.
Init == Idle
Next == CallEncode \/ CallNewDecoder \/ CallDecode
Spec == Init /\ [][Next]_vars

\* The decoder over a sampled source; what a call returned may be encoded again.
InitDecoder ==
    /\ \E buf \in Inputs : reader = [open |-> TRUE, buf |-> buf, pos |-> 0]
    /\ current = DecoderNew
    /\ calls = <<>>
    /\ writer = NewWriter
    /\ faults = {}
    /\ encodes = <<>>
    /\ map = BTreeNew
    /\ inserts = <<>>
NextDecoder == CallDecode \/ CallReencode
SpecDecoder == InitDecoder /\ [][NextDecoder]_vars

\* The encoder over a sink that fails some of its write operations.
InitEncoder ==
    /\ reader = NoReader
    /\ current = DecoderNew
    /\ calls = <<>>
    /\ writer = NewWriter
    /\ faults \in SUBSET (1..MaxFaultAt)
    /\ encodes = <<>>
    /\ map = BTreeNew
    /\ inserts = <<>>
NextEncoder == CallEncode
SpecEncoder == InitEncoder /\ [][NextEncoder]_vars

\* The caller builds a map key by key and encodes it as a Dictionary.
NextDict == CallInsert \/ CallEncodeMap
SpecDict == Init /\ [][NextDict]_vars

---------------------------------------------------------------------------
(* Properties of the decoder, under SpecDecoder.                            *)

\* the bytes that lead a value: 'i', '0'..'9', 'l', 'd'
IsTag(b) == b = B_i \/ IsDigit(b) \/ b = B_l \/ b = B_d

\* C1: a decode call that meets a value-leading byte other than 'i', a digit,
\* 'l' or 'd' returns an error to its caller: no call panics, and a call whose
\* first byte is no such byte returns Err.
C1_UnrecognizedTagIsError ==
    \A k \in DOMAIN calls :
        /\ calls[k].out.kind \in {"ok", "err"}
        /\ (/\ calls[k].start < Len(reader.buf)
            /\ ~IsTag(reader.buf[calls[k].start + 1]))
           => calls[k].out.kind = "err"

\* C2: a dictionary whose last key is followed by the terminator 'e' instead of
\* a value makes decode return Err(DictionaryValueMissing).
C2_MissingValueIsReported ==
    (reader.buf \in MissingValueInputs /\ calls # <<>>)
        => calls[1].out = Err("DictionaryValueMissing")

\* C6: an integer with a '-' and no digit before the 'e' (i-e) makes decode return
\* Err(NAN), never an Integer.
C6_SignWithoutDigitsIsNaN ==
    (reader.buf \in SignOnlyInputs /\ calls # <<>>) => calls[1].out = Err("NAN")

\* the proper prefixes of the encodings of the values of S
Truncated(S) == UNION {{SubSeq(Enc(v), 1, k) : k \in 0..(Len(Enc(v)) - 1)} : v \in S}

TruncatedInputs == Truncated(Values)
TruncatedInputsWithoutMin == Truncated({v \in Values : ~HasMin(v)})

\* C7: on a source that is a proper prefix of the encoding of a value, decode
\* returns Err(EOF): no other error and no value.
C7_TruncatedInputIsEOF ==
    (reader.buf \in TruncatedInputs /\ calls # <<>>) => calls[1].out = Err("EOF")

\* The same holds of the prefixes of the encodings of the values without i64::MIN.
TruncatedInputIsEOFWithoutMin ==
    (reader.buf \in TruncatedInputsWithoutMin /\ calls # <<>>)
        => calls[1].out = Err("EOF")

\* C9: decoding 'i', the decimal representation of n, 'e' returns Integer(n) when n
\* is in -2^63 .. 2^63-1 and Err(IntegerOverflow) when it is not.
C9_IntegerRange ==
    \A n \in IntSamples :
        (reader.buf = IntText(n) /\ calls # <<>>)
            => calls[1].out = IF InI64(n) THEN Ok(Integer(n)) ELSE Err("IntegerOverflow")

\* The same holds of every sampled integer but i64::MIN, which overflows.
IntegerRangeAboveMin ==
    \A n \in IntSamples :
        (reader.buf = IntText(n) /\ calls # <<>>)
            => calls[1].out =
                IF InI64(n) /\ n # I64_MIN THEN Ok(Integer(n)) ELSE Err("IntegerOverflow")

\* C10: when decode succeeds on a canonical text, encoding the value it returned
\* writes exactly that text; and two encode calls given the same value write the
\* same bytes.
C10_CanonicalReencode ==
    /\ (/\ reader.buf \in CanonicalInputs
        /\ calls # <<>>
        /\ calls[1].out.kind = "ok"
        /\ encodes # <<>>)
       => /\ encodes[1].value = calls[1].out.val
          /\ encodes[1].res = WOk
          /\ encodes[1].out = reader.buf
    /\ \A i, j \in DOMAIN encodes :
        encodes[i].value = encodes[j].value => encodes[i].out = encodes[j].out

\* whether every integer of a text has a digit
RECURSIVE HasDigits(_)
HasDigits(t) ==
    IF t.k = "int" THEN t.digits # <<>>
    ELSE IF t.k = "str" THEN TRUE
    ELSE IF t.k = "list" THEN \A i \in DOMAIN t.items : HasDigits(t.items[i])
    ELSE \A i \in DOMAIN t.entries : HasDigits(t.entries[i][2])

CanonicalInputsWithDigits == {Text(t) : t \in {u \in Lits : Canonical(u) /\ HasDigits(u)}}

\* The same holds of the canonical texts whose integers all have a digit.
CanonicalReencodeWithDigits ==
    (/\ reader.buf \in CanonicalInputsWithDigits
     /\ calls # <<>>
     /\ calls[1].out.kind = "ok"
     /\ encodes # <<>>)
        => /\ encodes[1].value = calls[1].out.val
           /\ encodes[1].res = WOk
           /\ encodes[1].out = reader.buf

\* A successful decode call stops exactly at the end of its value: the same call
\* on the source cut at the position it left returns the same value, and on the
\* source cut one byte earlier it returns no value.
ReadsNothingPastValue ==
    \A k \in DOMAIN calls :
        calls[k].out.kind = "ok" =>
            LET c == calls[k]
                st == [pos |-> c.start, cur |-> DecoderNew]
            IN /\ decode(SubSeq(reader.buf, 1, c.end), st).out = c.out
               /\ decode(SubSeq(reader.buf, 1, c.end - 1), st).out.kind # "ok"

---------------------------------------------------------------------------
(* Properties of the encoder.                                              *)

\* the number of the first failed write operation of a call's log, 0 when none failed
FirstFailure(log) ==
    IF \A i \in DOMAIN log : log[i].ok THEN 0
    ELSE log[CHOOSE i \in DOMAIN log :
                ~log[i].ok /\ \A j \in 1..(i - 1) : log[j].ok].at

\* C5 (under SpecEncoder): once a write to the sink fails, the encode call makes
\* no further write, and it returns that first failure.
C5_AbortsAtFirstFailure ==
    \A c \in DOMAIN encodes :
        LET log == encodes[c].log
        IN /\ \A i \in DOMAIN log : ~log[i].ok => i = Len(log)
           /\ encodes[c].res =
                IF FirstFailure(log) = 0 THEN WOk ELSE WErr(FirstFailure(log))

\* every encode call returns the first failure of its writes (Ok when none failed)
ReturnsFirstFailure ==
    \A c \in DOMAIN encodes :
        encodes[c].res =
            IF FirstFailure(encodes[c].log) = 0 THEN WOk
            ELSE WErr(FirstFailure(encodes[c].log))

\* the keys of an insertion history, and the value last inserted under a key
KeysOf(hist) == {hist[i][1] : i \in DOMAIN hist}
LastValue(hist, key) ==
    hist[CHOOSE i \in DOMAIN hist :
            hist[i][1] = key /\ \A j \in (i + 1)..Len(hist) : hist[j][1] # key][2]

\* the keys of a set in strictly ascending byte-lexicographic order
Ascending(keys) ==
    CHOOSE s \in [1..Cardinality(keys) -> keys] :
        \A i \in 1..(Len(s) - 1) : LexLess(s[i], s[i + 1])

\* C8 (under SpecDict): whatever the order of the insertions, encoding the
\* dictionary writes 'd', then every key once, in strictly ascending order, as a
\* byte string followed by the encoding of its value, then 'e'.
C8_DictionaryKeysAscending ==
    \A c \in DOMAIN encodes :
        LET keys == Ascending(KeysOf(encodes[c].hist))
        IN /\ encodes[c].res = WOk
           /\ encodes[c].out =
                <<B_d>>
                \o Flatten([i \in 1..Len(keys) |->
                              DecDigits(Len(keys[i])) \o <<B_colon>> \o keys[i]
                              \o Enc(LastValue(encodes[c].hist, keys[i]))])
                \o <<B_e>>

\* a dictionary was encoded whose keys were inserted in descending order, one of
\* them twice
C8_Witness ==
    \E c \in DOMAIN encodes :
        LET hist == encodes[c].hist
        IN /\ Len(hist) = 3
           /\ LexLess(hist[2][1], hist[1][1])
           /\ hist[3][1] = hist[1][1]
           /\ hist[3][2] # hist[1][2]

---------------------------------------------------------------------------
(* Properties of the codec, under Spec.                                    *)

\* C3: decoding the bytes encode wrote for a value v returns Ok(v).
C3_RoundTrip ==
    (/\ Len(encodes) = 1
     /\ reader.open
     /\ reader.buf = encodes[1].out
     /\ calls # <<>>)
        => calls[1].out = Ok(encodes[1].value)

\* The same holds of the values without i64::MIN.
RoundTripWithoutMin ==
    (/\ Len(encodes) = 1
     /\ ~HasMin(encodes[1].value)
     /\ reader.open
     /\ reader.buf = encodes[1].out
     /\ calls # <<>>)
        => calls[1].out = Ok(encodes[1].value)

\* the length of the first k encodings written
RECURSIVE EndOf(_)
EndOf(k) == IF k = 0 THEN 0 ELSE EndOf(k - 1) + Len(encodes[k].out)

\* C4: on a source holding enc(v1)..enc(vn) and then any trailer, the k-th decode
\* call returns vk and leaves the read position one past the last byte of
\* enc(vk), for every k <= n.
C4_ConcatenatedDecodes ==
    \A k \in DOMAIN calls :
        k <= Len(encodes) =>
            /\ calls[k].out = Ok(encodes[k].value)
            /\ calls[k].end = EndOf(k)

\* The same holds when no encoded value holds i64::MIN.
ConcatenatedDecodesWithoutMin ==
    (\A j \in DOMAIN encodes : ~HasMin(encodes[j].value)) => C4_ConcatenatedDecodes

===========================================================================
